---------------------------- MODULE Spec2Model ----------------------------
(***************************************************************************)
(* Model of the pyndulum simulation engine (src/analysis/pyndulum):        *)
(* Simulation.run / Simulation.update, the Actuator timing model, the      *)
(* controllers, the integrators and the nonlinear equations of motion.     *)
(*                                                                         *)
(* Numbers.  The program computes with binary floating point; the model    *)
(* computes with fixed-point integers: a physical magnitude v is held as   *)
(* the integer v * FP, products and quotients are rescaled and rounded     *)
(* toward zero.  Times are integers counting quanta of 1/TimeBase second.  *)
(* Plant parameters (masses, lengths, gravity, friction) are whole SI      *)
(* magnitudes and are held unscaled.                                       *)
(***************************************************************************)
EXTENDS Integers, Sequences, FiniteSets, TLC

\* An optional value: None, or Some(v) holding v.  Unset is an attribute not
\* yet assigned, or an array element not yet written.
None == << >>
Some(v) == << v >>
Val(o) == o[1]
Unset == << >>

\* Resolution of the fixed-point arithmetic and of the time axis
\* (a magnitude v is the integer v * FP; one second is TimeBase quanta).
FP == 10 * 10
TimeBase == 2 * 2

\* ---------------------------------------------------------------- bounds
\* Longest time sequence handed to Simulation.run.
MaxTicks == 4

\* The one element of a singleton set.  { e(x) : x \in {a} } evaluates a once
\* and binds x to its value: the definitions below use it where the code
\* assigns a local variable that it then reads several times.
Only(S) == CHOOSE x \in S : TRUE

\* ------------------------------------------------- fixed-point arithmetic
Abs(a) == IF a < 0 THEN -a ELSE a

\* np.sign
Sign(a) == IF a > 0 THEN 1 ELSE IF a < 0 THEN -1 ELSE 0

\* a / b rounded toward zero (b # 0)
Trunc(a, b) ==
    LET q == Abs(a) \div Abs(b)
    IN  IF (a >= 0) = (b > 0) THEN q ELSE -q

Mul(a, b) == Trunc(a * b, FP)

FDiv(a, b) == Trunc(a * FP, b)

\* The floating-point value NaN, held as an integer outside the range of the
\* magnitudes the model computes.  Arithmetic on a NaN gives a NaN and every
\* ordered comparison with a NaN is false.
NaN == -(2 ^ 30)

\* float + float, int * float, float * float and float / int on values that
\* may be NaN
FAdd(a, b) == IF a = NaN \/ b = NaN THEN NaN ELSE a + b
FScale(c, a) == IF a = NaN THEN NaN ELSE c * a
FMul(a, b) == IF a = NaN \/ b = NaN THEN NaN ELSE Mul(a, b)
FTrunc(a, d) == IF a = NaN THEN NaN ELSE Trunc(a, d)

\* pi and pi/2 in fixed point (355/113)
Pi == Trunc(355 * FP, 113)
HalfPi == Trunc(355 * FP, 226)

\* x reduced to [-Pi, Pi)
Wrap(x) == ((x + Pi) % (2 * Pi)) - Pi

\* sine on [-pi/2, pi/2]: r - r^3/6 + r^5/120
SinR(r) ==
    LET r2 == Mul(r, r)
        r3 == Mul(r2, r)
        r5 == Mul(r3, r2)
    IN  r - Trunc(r3, 6) + Trunc(r5, 120)

\* cosine on [-pi/2, pi/2]: 1 - r^2/2 + r^4/24 - r^6/720
CosR(r) ==
    LET r2 == Mul(r, r)
        r4 == Mul(r2, r2)
        r6 == Mul(r4, r2)
    IN  FP - Trunc(r2, 2) + Trunc(r4, 24) - Trunc(r6, 720)

\* np.sin
Sin(x) ==
    LET r == Wrap(x)
    IN  IF r > HalfPi THEN SinR(Pi - r)
        ELSE IF r < -HalfPi THEN SinR(-Pi - r)
        ELSE SinR(r)

\* np.cos
Cos(x) ==
    LET r == Wrap(x)
    IN  IF r > HalfPi THEN -CosR(Pi - r)
        ELSE IF r < -HalfPi THEN -CosR(-Pi - r)
        ELSE CosR(r)

\* np.tan.  A floating-point cosine is never exactly zero at a floating-point
\* argument, so the tangent is always finite: a zero fixed-point cosine is
\* replaced by the smallest positive magnitude.
Tan(x) ==
    LET c == Cos(x)
    IN  FDiv(Sin(x), IF c = 0 THEN 1 ELSE c)

\* ------------------------------------------------------------ quantities
\* A pint Quantity: a magnitude and a unit.  Only the units the model's
\* inputs use are listed; "rad" and "rad/s" are the base units of angles.
Qty(m, unit) == [mag |-> m, unit |-> unit]

\* Quantity.to_base_units().magnitude for the units of a State
BaseMagnitude(q) ==
    IF q.unit \in {"deg", "deg/s"} THEN FTrunc(FScale(Pi, q.mag), 180 * FP)
    ELSE q.mag

\* State.to_vector
to_vector(s) ==
    << BaseMagnitude(s.x), BaseMagnitude(s.vx),
       BaseMagnitude(s.theta), BaseMagnitude(s.omega) >>

\* Mutant of from_vector: the angle is tagged with the display unit
from_vector_degrees(v) ==
    [x |-> Qty(v[1], "m"), vx |-> Qty(v[2], "m/s"),
     theta |-> Qty(v[3], "deg"), omega |-> Qty(v[4], "rad/s")]

\* State.from_vector
from_vector(v) ==
    [x |-> Qty(v[1], "m"), vx |-> Qty(v[2], "m/s"),
     theta |-> Qty(v[3], "rad"), omega |-> Qty(v[4], "rad/s")]

\* numpy: vector + vector, scalar * vector, vector / scalar (to fixed point)
VAdd(a, b) ==
    << FAdd(a[1], b[1]), FAdd(a[2], b[2]), FAdd(a[3], b[3]), FAdd(a[4], b[4]) >>
VScale(c, a) ==
    << FScale(c, a[1]), FScale(c, a[2]), FScale(c, a[3]), FScale(c, a[4]) >>
VTrunc(a, d) ==
    << FTrunc(a[1], d), FTrunc(a[2], d), FTrunc(a[3], d), FTrunc(a[4], d) >>
VSub(a, b) == VAdd(a, VScale(-1, b))
\* row @ vector, in fixed point
Dot(a, b) ==
    FAdd(FAdd(FMul(a[1], b[1]), FMul(a[2], b[2])),
         FAdd(FMul(a[3], b[3]), FMul(a[4], b[4])))


\* -------------------------------------------------------------- actuator
\* Python truth value of an optional Quantity: None and a zero magnitude
\* are both false.
Truthy(q) == q # None /\ Val(q) # 0

\* Mutant of enforce_limit: the clamped force loses its sign
enforce_limit_unsigned(actuator, u0) ==
    IF /\ Truthy(actuator.force_limit)
       /\ u0 # NaN
       /\ Abs(u0) > Val(actuator.force_limit)
    THEN Val(actuator.force_limit)
    ELSE u0

\* Actuator.enforce_limit
enforce_limit(actuator, u0) ==
    IF /\ Truthy(actuator.force_limit)
       /\ u0 # NaN
       /\ Abs(u0) > Val(actuator.force_limit)
    THEN Sign(u0) * Val(actuator.force_limit)
    ELSE u0

\* 1 / refresh_rate, in quanta (refresh_rate is in hertz)
RefreshPeriod(refresh_rate) == TimeBase \div Val(refresh_rate)

\* Mutant of is_update_time: the test for an absent refresh rate is lost
is_update_time_norate(actuator, t, dt) ==
    \/ dt = 0
    \/ /\ actuator.refresh_rate # None
       /\ t % RefreshPeriod(actuator.refresh_rate) < dt

\* Mutant of is_update_time: a step that starts on a sample boundary counts
\* as crossing it
is_update_time_closed(actuator, t, dt) ==
    \/ actuator.refresh_rate = None
    \/ dt = 0
    \/ t % RefreshPeriod(actuator.refresh_rate) <= dt

\* Actuator.is_update_time
is_update_time(actuator, t, dt) ==
    \/ actuator.refresh_rate = None
    \/ dt = 0
    \/ t % RefreshPeriod(actuator.refresh_rate) < dt

\* Mutant of is_past_lag_time: the lag has to be exceeded
is_past_lag_time_strict(actuator, t, window_start) ==
    \/ actuator.command_lag = None
    \/ t - window_start > Val(actuator.command_lag)

\* Actuator.is_past_lag_time
is_past_lag_time(actuator, t, window_start) ==
    \/ actuator.command_lag = None
    \/ t - window_start >= Val(actuator.command_lag)

\* Actuator(force_limit, refresh_rate, command_lag)
Actuator(force_limit, refresh_rate, command_lag) ==
    [force_limit |-> force_limit, refresh_rate |-> refresh_rate,
     command_lag |-> command_lag]

\* ------------------------------------------------------------------ plant
\* Cart(mass, friction_coeff)
Cart(mass, friction_coeff) == [mass |-> mass, friction_coeff |-> friction_coeff]

\* Pendulum.__post_init__: the defaults of moi and length_pivot_to_centroid
Pendulum(mass, length, moi, length_pivot_to_centroid) ==
    [mass |-> mass,
     length |-> length,
     moi |-> IF moi = None THEN (mass * length * length) \div 12
             ELSE Val(moi),
     length_pivot_to_centroid |->
        IF length_pivot_to_centroid = None THEN length \div 2
        ELSE Val(length_pivot_to_centroid)]

\* System.__post_init__
System(actuator, cart, pendulum, gravity) ==
    [actuator |-> actuator, cart |-> cart, pendulum |-> pendulum,
     gravity |-> gravity,
     total_mass |-> cart.mass + pendulum.mass,
     b |-> cart.friction_coeff,
     g |-> gravity,
     moi_pend |-> pendulum.moi,
     m_cart |-> cart.mass,
     m_pend |-> pendulum.mass,
     l_com |-> pendulum.length_pivot_to_centroid]

\* --------------------------------------------------------------- dynamics
\* LinearizedModel.get_A_B_unitless: the non-trivial elements of A and B
get_A_B(sys) ==
    LET m_cart == sys.m_cart
        m_pend == sys.m_pend
        l_com == sys.l_com
        moi == sys.moi_pend
        g == sys.g
        b == sys.b
        ml2 == m_pend * m_pend * l_com * l_com
        J == moi + m_pend * l_com * l_com
        \* p and q, in fixed point
        p == (m_cart + m_pend) * FP - Trunc(ml2 * FP, J)
        q == Trunc((ml2 - J * (m_cart + m_pend)) * FP, m_pend * l_com)
        a22 == FDiv(-b * FP, p)
        a32 == FDiv(Trunc(-g * ml2 * FP, J), p)
        a24 == FDiv(-b * FP, q)
        a34 == FDiv(-(m_cart + m_pend) * g * FP, q)
        b2 == FDiv(FP, p)
        b4 == FDiv(FP, q)
    IN  [A |-> << <<0, FP, 0, 0>>,
                  <<0, a22, a32, 0>>,
                  <<0, 0, 0, FP>>,
                  <<0, a24, a34, 0>> >>,
         B |-> <<0, b2, 0, b4>>]

\* LinearizedModel.calc_state_derivative:
\* A @ state.to_vector() + B * u.magnitude.  A @ x has the shape (4,) and B
\* was reshaped to (4, 1), so numpy broadcasts the sum to the shape (4, 4):
\* the element [r][c] of the result is (A @ x)[c] + B[r] * u.
LinearDerivative(s, sys, u0) ==
    LET AB == get_A_B(sys)
        v == to_vector(s)
        Ax == << Dot(AB.A[1], v), Dot(AB.A[2], v),
                 Dot(AB.A[3], v), Dot(AB.A[4], v) >>
        Row(r) ==
            << FAdd(Ax[1], FMul(AB.B[r], u0)), FAdd(Ax[2], FMul(AB.B[r], u0)),
               FAdd(Ax[3], FMul(AB.B[r], u0)), FAdd(Ax[4], FMul(AB.B[r], u0)) >>
    IN  << Row(1), Row(2), Row(3), Row(4) >>

\* Mutant of NonlinearDerivative: the gravity term of x_ddot takes
\* cos(theta)^2 for sin(theta) cos(theta)
NonlinearDerivative_cosgravity(s, sys, u0) ==
    LET vx == BaseMagnitude(s.vx)
        theta == BaseMagnitude(s.theta)
        omega == BaseMagnitude(s.omega)
        m_cart == sys.m_cart
        m_pend == sys.m_pend
        l_com == sys.l_com
        moi == sys.moi_pend
        g == sys.g
        b == sys.b
        ml2 == m_pend * m_pend * l_com * l_com
        J == moi + m_pend * l_com * l_com
        \* x_ddot and theta_ddot are NaN when an operand is, and when the
        \* quotient by moi + m_pend*l_com**2 is 0/0
        nan == vx = NaN \/ theta = NaN \/ omega = NaN \/ u0 = NaN \/ J = 0
        sn == Sin(theta)
        cs == Cos(theta)
        cs2 == Mul(cs, cs)
        x_ddot_coeff == FDiv(FP, Trunc(ml2 * cs2, J) - (m_cart + m_pend) * FP)
        theta_ddot_coeff ==
            FDiv(m_pend * l_com * cs, ml2 * cs2 - (m_cart + m_pend) * J * FP)
        centripetal == m_pend * l_com * Mul(Mul(omega, omega), sn)
        x_ddot == Mul(x_ddot_coeff,
                      b * vx - centripetal
                      + Trunc(ml2 * g * Mul(cs, cs), J) - u0)
        theta_ddot == Mul(theta_ddot_coeff,
                          -b * vx + centripetal
                          - (m_cart + m_pend) * g * Tan(theta) + u0)
    IN  IF nan THEN << vx, NaN, omega, NaN >>
        ELSE << vx, x_ddot, omega, theta_ddot >>

\* NonlinearModel.calc_state_derivative_unitless, on the base-unit
\* magnitudes that ureg.wraps hands it
NonlinearDerivative(s, sys, u0) ==
    LET vx == BaseMagnitude(s.vx)
        theta == BaseMagnitude(s.theta)
        omega == BaseMagnitude(s.omega)
        m_cart == sys.m_cart
        m_pend == sys.m_pend
        l_com == sys.l_com
        moi == sys.moi_pend
        g == sys.g
        b == sys.b
        ml2 == m_pend * m_pend * l_com * l_com
        J == moi + m_pend * l_com * l_com
        \* x_ddot and theta_ddot are NaN when an operand is, and when the
        \* quotient by moi + m_pend*l_com**2 is 0/0
        nan == vx = NaN \/ theta = NaN \/ omega = NaN \/ u0 = NaN \/ J = 0
        sn == Sin(theta)
        cs == Cos(theta)
        cs2 == Mul(cs, cs)
        x_ddot_coeff == FDiv(FP, Trunc(ml2 * cs2, J) - (m_cart + m_pend) * FP)
        theta_ddot_coeff ==
            FDiv(m_pend * l_com * cs, ml2 * cs2 - (m_cart + m_pend) * J * FP)
        centripetal == m_pend * l_com * Mul(Mul(omega, omega), sn)
        x_dot == vx
        x_ddot == Mul(x_ddot_coeff,
                      b * vx - centripetal
                      + Trunc(ml2 * g * Mul(sn, cs), J) - u0)
        theta_dot == omega
        theta_ddot == Mul(theta_ddot_coeff,
                          -b * vx + centripetal
                          - (m_cart + m_pend) * g * Tan(theta) + u0)
    IN  IF nan THEN << x_dot, NaN, theta_dot, NaN >>
        ELSE << x_dot, x_ddot, theta_dot, theta_ddot >>

\* Derivative functions other than the two models, of the signature
\* func(state, system, u) that Integrator.step calls: a driven harmonic
\* oscillator in each of the two coordinates, and a cart that carries no
\* pendulum (friction and the input act on the cart's mass)
OscillatorDerivative(s, sys, u0) ==
    << BaseMagnitude(s.vx), FAdd(FScale(-1, BaseMagnitude(s.x)), u0),
       BaseMagnitude(s.omega), FScale(-1, BaseMagnitude(s.theta)) >>
CartOnlyDerivative(s, sys, u0) ==
    << BaseMagnitude(s.vx),
       FTrunc(FAdd(u0, FScale(-1 * sys.b, BaseMagnitude(s.vx))), sys.m_cart),
       BaseMagnitude(s.omega), 0 >>

\* The derivative functions an integrator is handed (func)
calc_state_derivative(func, s, sys, u0) ==
    IF func = "linear" THEN LinearDerivative(s, sys, u0)
    ELSE IF func = "oscillator" THEN OscillatorDerivative(s, sys, u0)
    ELSE IF func = "cart only" THEN CartOnlyDerivative(s, sys, u0)
    ELSE NonlinearDerivative(s, sys, u0)

\* ------------------------------------------- the linearization, exactly
\* Exact arithmetic for the derivatives of the equations of motion.  A
\* rational is << numerator, denominator >>, denominator positive, in lowest
\* terms.
RECURSIVE GCD(_, _)
GCD(a, b) == IF b = 0 THEN a ELSE GCD(b, a % b)

Rat(n, d) ==
    LET g == GCD(Abs(n), Abs(d))
    IN  << Sign(n) * Sign(d) * (Abs(n) \div g), Abs(d) \div g >>
RInt(n) == << n, 1 >>
RAdd(p, q) == Rat(p[1] * q[2] + q[1] * p[2], p[2] * q[2])
RNeg(p) == << -p[1], p[2] >>
RSub(p, q) == RAdd(p, RNeg(q))
RMul(p, q) == Rat(p[1] * q[1], p[2] * q[2])
RDiv(p, q) == Rat(p[1] * q[2], p[2] * q[1])

\* A float operand together with its derivative along one direction of the
\* (state, input) space: v is the value, d the derivative.  The operations
\* below are those of the floats, with the derivative each one carries
\* (sum, product and quotient rules; sin' = cos, cos' = -sin,
\* tan' = 1/cos^2).
Jet(v, d) == [v |-> v, d |-> d]
JConst(n) == Jet(RInt(n), RInt(0))
JAdd(a, b) == Jet(RAdd(a.v, b.v), RAdd(a.d, b.d))
JSub(a, b) == Jet(RSub(a.v, b.v), RSub(a.d, b.d))
JMul(a, b) == Jet(RMul(a.v, b.v), RAdd(RMul(a.v, b.d), RMul(a.d, b.v)))
JDiv(a, b) ==
    Jet(RDiv(a.v, b.v),
        RDiv(RSub(RMul(a.d, b.v), RMul(a.v, b.d)), RMul(b.v, b.v)))
\* np.sin, np.cos and np.tan at an angle whose value is 0, the only angle
\* with rational sine and cosine that the linearization needs
JSin(a) == Jet(RInt(0), a.d)
JCos(a) == Jet(RInt(1), RInt(0))
JTan(a) == Jet(RInt(0), a.d)

\* LinearizedModel.get_A_B_unitless, in exact arithmetic
get_A_B_unitless(m_cart, m_pend, l_com, moi, g, b) ==
    LET J == RInt(moi + m_pend * l_com * l_com)
        ml2 == RInt(m_pend * m_pend * l_com * l_com)
        p == RSub(RInt(m_cart + m_pend), RDiv(ml2, J))
        q == RDiv(RSub(ml2, RMul(J, RInt(m_cart + m_pend))),
                  RInt(m_pend * l_com))
        a22 == RDiv(RInt(-b), p)
        a32 == RDiv(RMul(RInt(-g), ml2), RMul(p, J))
        a24 == RDiv(RInt(-b), q)
        a34 == RDiv(RInt(-1 * (m_cart + m_pend) * g), q)
        b2 == RDiv(RInt(1), p)
        b4 == RDiv(RInt(1), q)
        O == RInt(0)
        I == RInt(1)
    IN  [A |-> << << O, I, O, O >>,
                  << O, a22, a32, O >>,
                  << O, O, O, I >>,
                  << O, a24, a34, O >> >>,
         B |-> << O, b2, O, b4 >>]

\* Mutant of calc_state_derivative_unitless: the friction force drives the
\* pendulum with the wrong sign
calc_state_derivative_unitless_friction(vx, theta, omega, m_cart, m_pend, l_com, moi, g, b, u0) ==
    LET J == JConst(moi + m_pend * l_com * l_com)
        ml2 == JConst(m_pend * m_pend * l_com * l_com)
        total == JConst(m_cart + m_pend)
        cs == JCos(theta)
        cs2 == JMul(cs, cs)
        x_ddot_coeff == JDiv(JConst(1), JSub(JDiv(JMul(ml2, cs2), J), total))
        theta_ddot_coeff ==
            JDiv(JMul(JConst(m_pend * l_com), cs),
                 JSub(JMul(ml2, cs2), JMul(total, J)))
        friction == JMul(JConst(b), vx)
        centripetal ==
            JMul(JMul(JConst(m_pend * l_com), JMul(omega, omega)), JSin(theta))
        x_ddot ==
            JMul(x_ddot_coeff,
                 JSub(JAdd(JSub(friction, centripetal),
                           JDiv(JMul(JMul(ml2, JConst(g)),
                                     JMul(JSin(theta), cs)), J)),
                      u0))
        theta_ddot ==
            JMul(theta_ddot_coeff,
                 JAdd(JSub(JAdd(friction, centripetal),
                           JMul(JMul(total, JConst(g)), JTan(theta))),
                      u0))
    IN  << vx, x_ddot, omega, theta_ddot >>

\* NonlinearModel.calc_state_derivative_unitless, in exact arithmetic on
\* operands that carry their derivative
calc_state_derivative_unitless(vx, theta, omega, m_cart, m_pend, l_com, moi, g, b, u0) ==
    LET J == JConst(moi + m_pend * l_com * l_com)
        ml2 == JConst(m_pend * m_pend * l_com * l_com)
        total == JConst(m_cart + m_pend)
        cs == JCos(theta)
        cs2 == JMul(cs, cs)
        x_ddot_coeff == JDiv(JConst(1), JSub(JDiv(JMul(ml2, cs2), J), total))
        theta_ddot_coeff ==
            JDiv(JMul(JConst(m_pend * l_com), cs),
                 JSub(JMul(ml2, cs2), JMul(total, J)))
        friction == JMul(JConst(b), vx)
        centripetal ==
            JMul(JMul(JConst(m_pend * l_com), JMul(omega, omega)), JSin(theta))
        x_dot == vx
        x_ddot ==
            JMul(x_ddot_coeff,
                 JSub(JAdd(JSub(friction, centripetal),
                           JDiv(JMul(JMul(ml2, JConst(g)),
                                     JMul(JSin(theta), cs)), J)),
                      u0))
        theta_dot == omega
        theta_ddot ==
            JMul(theta_ddot_coeff,
                 JAdd(JSub(JAdd(JSub(JConst(0), friction), centripetal),
                           JMul(JMul(total, JConst(g)), JTan(theta))),
                      u0))
    IN  << x_dot, x_ddot, theta_dot, theta_ddot >>

\* ------------------------------------------------------------ integrators
\* EulerIntegrator.step; dt is delta_time.magnitude, here in quanta
EulerStep(func, s, dt, sys, u0) ==
    Only({ from_vector(VAdd(to_vector(s), VTrunc(VScale(dt, state_derivative), TimeBase)))
           : state_derivative \in {calc_state_derivative(func, s, sys, u0)} })

\* Mutant of RK4Step: the fourth stage is taken at the half step
RK4Step_halfk4(func, s, dt, sys, u0) ==
    LET v == to_vector(s)
        Stage(k, half) == from_vector(VAdd(v, VTrunc(VScale(dt, k), half * TimeBase)))
        f(st) == calc_state_derivative(func, st, sys, u0)
        Combine(k1, k2, k3, k4) ==
            Only({ from_vector(VAdd(v, VTrunc(VScale(dt, ksum), 6 * TimeBase)))
                   : ksum \in {VAdd(VAdd(k1, VScale(2, k2)),
                                    VAdd(VScale(2, k3), k4))} })
    IN  Only({ Only({ Only({ Only({ Combine(k1, k2, k3, k4)
                                    : k4 \in {f(Stage(k3, 2))} })
                             : k3 \in {f(Stage(k2, 2))} })
                      : k2 \in {f(Stage(k1, 2))} })
               : k1 \in {f(s)} })

\* RK4Integrator.step
RK4Step(func, s, dt, sys, u0) ==
    LET v == to_vector(s)
        \* state.to_vector() + c * k * dt, as a State (c = 1/half)
        Stage(k, half) == from_vector(VAdd(v, VTrunc(VScale(dt, k), half * TimeBase)))
        f(st) == calc_state_derivative(func, st, sys, u0)
        Combine(k1, k2, k3, k4) ==
            Only({ from_vector(VAdd(v, VTrunc(VScale(dt, ksum), 6 * TimeBase)))
                   : ksum \in {VAdd(VAdd(k1, VScale(2, k2)),
                                    VAdd(VScale(2, k3), k4))} })
    IN  Only({ Only({ Only({ Only({ Combine(k1, k2, k3, k4)
                                    : k4 \in {f(Stage(k3, 1))} })
                             : k3 \in {f(Stage(k2, 2))} })
                      : k2 \in {f(Stage(k1, 2))} })
               : k1 \in {f(s)} })

\* Integrator.step, dispatched on the integrator's class
step(integ, func, s, dt, sys, u0) ==
    IF integ = "Euler" THEN EulerStep(func, s, dt, sys, u0)
    ELSE RK4Step(func, s, dt, sys, u0)

\* ------------------------------------------------------------ controllers
\* ConstantController.__init__
ConstantController(u0) == [kind |-> "Constant", u |-> u0]

\* scipy.linalg.solve_continuous_are followed by inv(R) @ B.T @ P: the gain
\* for Q = identity, R = 1, tabulated for the plants of the model (the
\* solver is a library routine; its result is a function of A, B, Q, R).
RiccatiGain(AB, Q, R) ==
    CASE /\ AB.A[2] = <<0, -17, -391, 0>> /\ AB.A[4] = <<0, 13, 1044, 0>>
         /\ AB.B = <<0, 17, 0, -13>> /\ Q = "I4" /\ R = FP
         -> << -FP, -587, -18871, -6014 >>

\* LQRController.calc_k
calc_k(Q, R, sys) == RiccatiGain(get_A_B(sys), Q, R)

\* calc_k raises instead of returning: get_A_B_unitless divides by zero
\* (moi + m_pend*l_com**2, m_pend*l_com, p or q is zero), or
\* solve_continuous_are rejects the weight R as singular
calc_k_raises(Q, R, sys) ==
    LET ml2 == sys.m_pend * sys.m_pend * sys.l_com * sys.l_com
        J == sys.moi_pend + sys.m_pend * sys.l_com * sys.l_com
    IN  \/ J = 0
        \/ sys.m_pend * sys.l_com = 0
        \/ ml2 = J * (sys.m_cart + sys.m_pend)
        \/ R = 0

\* What an expression that builds an object evaluates to when the
\* constructor raises: an exception, and no object
Raised == [kind |-> "Raised"]

\* Mutant of LQRController: a failed solve leaves the controller with a
\* zero gain
LQRController_fallback(Q, R, sys, setpoint, limit) ==
    [kind |-> "LQR", limit |-> limit, Q |-> Q, R |-> R, setpoint |-> setpoint,
     K |-> IF calc_k_raises(Q, R, sys) THEN <<0, 0, 0, 0>>
           ELSE calc_k(Q, R, sys),
     solves |-> 1]

\* LQRController.__init__; solves counts the calls of calc_k on the object.
\* An exception of calc_k leaves __init__ through line 29.
LQRController(Q, R, sys, setpoint, limit) ==
    IF calc_k_raises(Q, R, sys) THEN Raised
    ELSE [kind |-> "LQR", limit |-> limit, Q |-> Q, R |-> R,
          setpoint |-> setpoint, K |-> calc_k(Q, R, sys), solves |-> 1]

\* Mutant of LQRRequest: the setpoint is not subtracted
LQRRequest_nosetpoint(ctrl, s) == FScale(-1, Dot(ctrl.K, to_vector(s)))

\* -K @ (state.to_vector() - setpoint), the force an LQR controller requests
LQRRequest(ctrl, s) ==
    FScale(-1, Dot(ctrl.K, VSub(to_vector(s), ctrl.setpoint)))

\* Mutant of Requested: the force of a constant controller is damped by the
\* cart's velocity
Requested_damped(ctrl, s) ==
    IF ctrl.kind = "Constant" THEN FAdd(ctrl.u, FScale(-1, BaseMagnitude(s.vx)))
    ELSE LQRRequest(ctrl, s)

\* The force a controller requests before the actuator limit is enforced
Requested(ctrl, s) ==
    IF ctrl.kind = "Constant" THEN ctrl.u ELSE LQRRequest(ctrl, s)

\* Mutant of compute_u: a controller built with a limit of its own clamps
\* to that limit
compute_u_ownlimit(ctrl, sys, s) ==
    enforce_limit([sys.actuator EXCEPT !.force_limit =
                      IF ctrl.kind = "LQR" /\ ctrl.limit # None
                      THEN ctrl.limit ELSE @],
                  Requested(ctrl, s))

\* ConstantController.compute_u / LQRController.compute_u
compute_u(ctrl, sys, s) == enforce_limit(sys.actuator, Requested(ctrl, s))

\* Mutant of AfterComputeU: compute_u solves the Riccati equation again
AfterComputeU_resolve(ctrl, sys) ==
    IF ctrl.kind = "LQR"
    THEN [ctrl EXCEPT !.K = calc_k(ctrl.Q, ctrl.R, sys), !.solves = @ + 1]
    ELSE ctrl

\* The controller object after a compute_u call: compute_u assigns no
\* attribute of self
AfterComputeU(ctrl, sys) == ctrl

\* ------------------------------------------------------------- simulation
VARIABLES
    system,             \* Simulation.system
    controller,         \* Simulation.controller
    integrator,         \* Simulation.integrator: "Euler" or "RK4"
    dynamics,           \* Simulation.dynamics: the function that
                        \* dynamics.nonlinear.calc_state_derivative is
    state,              \* Simulation.state
    time,               \* Simulation.time
    u,                  \* Simulation.u, the applied input
    lag_u,              \* Simulation.lag_u, the latest computed command
    lag_window_start,   \* Simulation.lag_window_start
    pc,                 \* "idle", "running" (inside run's loop), "returned"
    times,              \* the argument of the current call of run
    i,                  \* number of loop iterations of run completed
    states,             \* run's local array states, one column per timestamp
    inputs,             \* run's local array inputs
    log,                \* history: what each tick of the current run did
    calls               \* history: the calls of run that have returned

vars == << system, controller, integrator, dynamics, state, time, u, lag_u,
           lag_window_start, pc, times, i, states, inputs, log, calls >>

config == << system, controller, integrator, dynamics >>

\* ---- the inputs explored
ForceLimits == {None, Some(0), Some(10 * FP)}
RefreshRates == {None, Some(1), Some(2)}
CommandLags == {None, Some(0), Some(2)}
Actuators ==
    { Actuator(fl, rr, cl) :
        fl \in ForceLimits, rr \in RefreshRates, cl \in CommandLags }

\* cart 5 kg, friction 1 N s/m; pendulum 3 kg, 2 m; gravity 10 m/s^2
Plant(actuator) ==
    System(actuator, Cart(5, 1), Pendulum(3, 2, None, None), 10)

Origin == <<0, 0, 0, 0>>

\* The controllers built without the plant
ConstantControllers == { ConstantController(0), ConstantController(-20 * FP) }

Controllers(sys) ==
    ConstantControllers \cup { LQRController("I4", FP, sys, Origin, None) }

Integrators == {"Euler", "RK4"}

InitialStates ==
    { from_vector(Origin),
      from_vector(<<0, 0, 10, 0>>),
      [x |-> Qty(0, "m"), vx |-> Qty(0, "m/s"),
       theta |-> Qty(-6 * FP, "deg"), omega |-> Qty(0, "deg/s")] }

\* First timestamps times[0] and increments between consecutive timestamps,
\* in quanta (repeated, uniform and non-uniform timestamps)
FirstTimes == {0, 1}
Steps == {0, 1, 2}

RECURSIVE TimeSeqs(_)
\* The non-decreasing time sequences of length n
TimeSeqs(n) ==
    IF n = 1 THEN { <<t0>> : t0 \in FirstTimes }
    ELSE { Append(ts, ts[n - 1] + d) : ts \in TimeSeqs(n - 1), d \in Steps }

\* The arguments of run that are explored
TimeSequences == UNION { TimeSeqs(n) : n \in 1..MaxTicks }

\* The Simulation objects built on one of the plants, from one of the
\* initial states: the attributes after Simulation(...), before any run.
\* When the constructor of the controller raised, no Simulation is built
\* and nothing runs (pc = "raised").  ctrls[sys] are the controllers tried
\* on the plant sys.
Setup(plants, ctrls, initial_states) ==
    /\ \E sys \in plants :
         /\ system = sys
         /\ controller \in ctrls[sys]
    /\ integrator \in Integrators
    /\ dynamics = "nonlinear"
    /\ state \in initial_states
    /\ time = 0
    /\ u = Unset
    /\ lag_u = Unset
    /\ lag_window_start = Unset
    /\ pc = IF controller = Raised THEN "raised" ELSE "idle"
    /\ times = << >>
    /\ i = 0
    /\ states = << >>
    /\ inputs = << >>
    /\ log = << >>
    /\ calls = << >>

Plants == { Plant(a) : a \in Actuators }

Init == Setup(Plants, [sys \in Plants |-> Controllers(sys)], InitialStates)

\* Mutant of Begin: a further call of run keeps the inputs that the call
\* before it left
Begin_keepinputs(ts) ==
    /\ times' = ts
    /\ states' = [k \in 1..Len(ts) |-> Unset]
    /\ inputs' = [k \in 1..Len(ts) |-> Unset]
    /\ lag_window_start' = ts[1]
    /\ u' = IF pc = "idle" THEN 0 ELSE u
    /\ lag_u' = IF pc = "idle" THEN 0 ELSE lag_u
    /\ pc' = "running"
    /\ i' = 0
    /\ log' = << >>
    /\ UNCHANGED << config, state, time, calls >>

\* Simulation.run(times), up to the loop: allocate the outputs, zero the
\* inputs, start the lag window at times[0].  Nothing else is read of times
\* before the loop.
Begin(ts) ==
    /\ times' = ts
    /\ states' = [k \in 1..Len(ts) |-> Unset]
    /\ inputs' = [k \in 1..Len(ts) |-> Unset]
    /\ lag_window_start' = ts[1]
    /\ u' = 0
    /\ lag_u' = 0
    /\ pc' = "running"
    /\ i' = 0
    /\ log' = << >>
    /\ UNCHANGED << config, state, time, calls >>

\* A call of Simulation.run with a non-decreasing time sequence
Run ==
    /\ pc = "idle"
    /\ \E ts \in TimeSequences : Begin(ts)

\* Mutant of AfterUpdate: a tick adds the pendulum to the total mass again
AfterUpdate_accumulates(sys) == [sys EXCEPT !.total_mass = @ + sys.m_pend]

\* The System object after a call of update: update hands self.system to
\* is_update_time, is_past_lag_time, compute_u and calc_state_derivative,
\* which read its attributes and assign none
AfterUpdate(sys) == sys

\* Mutant of update: the lag test reads the lag window as it was before the
\* tick
update_stalewindow(t) ==
    LET prev_time == time
        delta_time == t - prev_time
        query == is_update_time(system.actuator, t, delta_time)
        new_lag_u == IF query THEN compute_u(controller, system, state) ELSE lag_u
        new_start == IF query THEN t ELSE lag_window_start
        promote == is_past_lag_time(system.actuator, t, lag_window_start)
        new_u == IF promote THEN new_lag_u ELSE u
    IN  [time |-> t,
         system |-> AfterUpdate(system),
         delta_time |-> delta_time,
         query |-> query,
         promote |-> promote,
         controller |-> IF query THEN AfterComputeU(controller, system)
                        ELSE controller,
         lag_u |-> new_lag_u,
         lag_window_start |-> new_start,
         u |-> new_u,
         state |-> step(integrator, dynamics, state, delta_time, system, new_u)]

\* Mutant of update: the integration comes first, with the input of the
\* previous tick, and the controller is queried on the state it produces
update_integratefirst(t) ==
    LET prev_time == time
        delta_time == t - prev_time
        new_state == step(integrator, dynamics, state, delta_time, system, u)
        query == is_update_time(system.actuator, t, delta_time)
        new_lag_u == IF query THEN compute_u(controller, system, new_state)
                     ELSE lag_u
        new_start == IF query THEN t ELSE lag_window_start
        promote == is_past_lag_time(system.actuator, t, new_start)
        new_u == IF promote THEN new_lag_u ELSE u
    IN  [time |-> t,
         system |-> AfterUpdate(system),
         delta_time |-> delta_time,
         query |-> query,
         promote |-> promote,
         controller |-> IF query THEN AfterComputeU(controller, system)
                        ELSE controller,
         lag_u |-> new_lag_u,
         lag_window_start |-> new_start,
         u |-> new_u,
         state |-> new_state]

\* Simulation.update(t): the values of the attributes after the call
update(t) ==
    LET prev_time == time
        delta_time == t - prev_time
        query == is_update_time(system.actuator, t, delta_time)
        new_lag_u == IF query THEN compute_u(controller, system, state) ELSE lag_u
        new_start == IF query THEN t ELSE lag_window_start
        promote == is_past_lag_time(system.actuator, t, new_start)
        new_u == IF promote THEN new_lag_u ELSE u
    IN  [time |-> t,
         system |-> AfterUpdate(system),
         delta_time |-> delta_time,
         query |-> query,
         promote |-> promote,
         controller |-> IF query THEN AfterComputeU(controller, system)
                        ELSE controller,
         lag_u |-> new_lag_u,
         lag_window_start |-> new_start,
         u |-> new_u,
         state |-> step(integrator, dynamics, state, delta_time, system, new_u)]

\* Mutant of Column: every iteration after the first writes the column of
\* the iteration before it
Column_stale(k) == IF k = 0 THEN 1 ELSE k

\* The column of the output arrays that iteration k (0-based) of run's loop
\* writes
Column(k) == k + 1

\* One iteration of run's loop: update(t), then record the state and input
Tick ==
    /\ pc = "running"
    /\ i < Len(times)
    /\ \E r \in {update(times[i + 1])} :
           /\ time' = r.time
           /\ system' = r.system
           /\ controller' = r.controller
           /\ lag_u' = r.lag_u
           /\ lag_window_start' = r.lag_window_start
           /\ u' = r.u
           /\ state' = r.state
           /\ states' = [states EXCEPT ![Column(i)] = to_vector(r.state)]
           /\ inputs' = [inputs EXCEPT ![Column(i)] = Some(r.u)]
           /\ log' = Append(log, [t |-> r.time, dt |-> r.delta_time,
                                  query |-> r.query, promote |-> r.promote,
                                  requested |-> Requested(controller, state),
                                  before |-> to_vector(state),
                                  lag_u |-> r.lag_u, u |-> r.u])
    /\ i' = i + 1
    /\ UNCHANGED << integrator, dynamics, pc, times, calls >>

\* Mutant of Return: on return the object is put back to the state and the
\* time of the start of the call
Return_rewind ==
    /\ pc = "running"
    /\ i = Len(times)
    /\ pc' = "returned"
    /\ state' = from_vector(log[1].before)
    /\ time' = log[1].t - log[1].dt
    /\ calls' = Append(calls, [times |-> times, states |-> states,
                               inputs |-> inputs, state |-> state',
                               time |-> time'])
    /\ UNCHANGED << config, u, lag_u, lag_window_start, times, i, states,
                    inputs, log >>

\* run returns (states, inputs) when the time sequence is exhausted.  calls
\* keeps the argument and the two arrays of the call, and the state and time
\* attributes the object has when the call returns.
Return ==
    /\ pc = "running"
    /\ i = Len(times)
    /\ pc' = "returned"
    /\ calls' = Append(calls, [times |-> times, states |-> states,
                               inputs |-> inputs, state |-> state,
                               time |-> time])
    /\ UNCHANGED << config, state, time, u, lag_u, lag_window_start, times, i,
                    states, inputs, log >>

Next ==
    \/ Run
    \/ Tick
    \/ Return

Spec == Init /\ [][Next]_vars

\* ---- runs over time sequences in any order
\* Increments between consecutive timestamps, backward ones included
UnorderedSteps == {-1, 1}

RECURSIVE UnorderedSeqs(_)
\* The time sequences of length n whose increments are UnorderedSteps
UnorderedSeqs(n) ==
    IF n = 1 THEN { <<t0>> : t0 \in FirstTimes }
    ELSE { Append(ts, ts[n - 1] + d) :
             ts \in UnorderedSeqs(n - 1), d \in UnorderedSteps }

UnorderedSequences == UNION { UnorderedSeqs(n) : n \in 1..MaxTicks }

\* A call of Simulation.run with any array of times: run makes no test on
\* the order of its elements
RunUnordered ==
    /\ pc = "idle"
    /\ \E ts \in UnorderedSequences : Begin(ts)

NextUnordered ==
    \/ RunUnordered
    \/ Tick
    \/ Return

SpecUnordered == Init /\ [][NextUnordered]_vars

\* ---- runs from an initial state that holds a NaN
\* Initial states with one NaN magnitude (the position is not an operand of
\* the equations of motion; the angle and the angular velocity are)
NaNStates ==
    { from_vector(<<NaN, 0, 0, 0>>),
      from_vector(<<0, 0, NaN, 0>>),
      [x |-> Qty(0, "m"), vx |-> Qty(0, "m/s"),
       theta |-> Qty(0, "deg"), omega |-> Qty(NaN, "deg/s")] }

InitNaN == Setup(Plants, [sys \in Plants |-> Controllers(sys)], NaNStates)

SpecNaN == InitNaN /\ [][Next]_vars

\* ---- runs on plants built from any masses, lengths and moments of inertia
\* Carts and pendulums, valid (two) and not: a pendulum of mass 0, of length 0,
\* of negative mass, of moment of inertia 0; a cart of mass 0, of negative
\* mass (these two with the pendulums on which the equations of motion
\* give NaN at once: on the others the trajectory leaves the range of the
\* model's integers within the run)
PlantParts ==
    { << Cart(5, 1), Pendulum(3, 2, None, None) >>,
      << Cart(8, 2), Pendulum(6, 2, None, None) >>,
      << Cart(5, 1), Pendulum(0, 2, None, None) >>,
      << Cart(5, 1), Pendulum(3, 0, None, None) >>,
      << Cart(5, 1), Pendulum(-3, 2, None, None) >>,
      << Cart(5, 1), Pendulum(3, 2, Some(0), None) >>,
      << Cart(0, 1), Pendulum(0, 2, None, None) >>,
      << Cart(-1, 1), Pendulum(3, 0, None, None) >> }
\* The ideal actuator and one with a limit, a refresh rate and a lag
SomeActuators ==
    { Actuator(None, None, None), Actuator(Some(10 * FP), Some(2), Some(2)) }
AnyPlants ==
    { System(a, cp[1], cp[2], 10) : a \in SomeActuators, cp \in PlantParts }

InitAnyPlant ==
    Setup(AnyPlants, [sys \in AnyPlants |-> ConstantControllers],
          InitialStates)

SpecAnyPlant == InitAnyPlant /\ [][Next]_vars

\* ---- LQR controllers built with any weight R, on plants with and without
\* ---- a pendulum mass
RWeights == {FP, 0}
\* The origin, and the cart held one metre to the right
Setpoints == { Origin, <<FP, 0, 0, 0>> }
LQRControllers(sys) ==
    { LQRController("I4", R, sys, sp, None) :
        R \in RWeights, sp \in Setpoints }
LQRPlants ==
    Plants
    \cup { System(a, Cart(5, 1), Pendulum(0, 2, None, None), 10) :
              a \in SomeActuators }

InitLQR ==
    Setup(LQRPlants, [sys \in LQRPlants |-> LQRControllers(sys)],
          InitialStates)

SpecLQR == InitLQR /\ [][Next]_vars

\* ---- several calls of run on one Simulation object
\* Calls of run made on one object
MaxRuns == 2

\* The arguments of the calls: every time sequence of one or two timestamps
RerunSequences == TimeSeqs(1) \cup TimeSeqs(2)

\* The ideal actuator, one with a refresh rate and a lag, and one with a lag
\* that the run's first tick does not satisfy
RerunActuators ==
    { Actuator(None, None, None), Actuator(Some(10 * FP), Some(2), Some(2)),
      Actuator(None, Some(1), Some(0)) }
RerunPlants == { Plant(a) : a \in RerunActuators }

InitRerun ==
    Setup(RerunPlants, [sys \in RerunPlants |-> Controllers(sys)],
          InitialStates)

\* The first call of run on the object
RunFirst ==
    /\ pc = "idle"
    /\ \E ts \in RerunSequences : Begin(ts)

\* A further call of run on an object whose previous call has returned:
\* the same method, entered with the attributes the previous call left
RunAgain ==
    /\ pc = "returned"
    /\ Len(calls) < MaxRuns
    /\ \E ts \in RerunSequences : Begin(ts)

NextRerun ==
    \/ RunFirst
    \/ RunAgain
    \/ Tick
    \/ Return

SpecRerun == InitRerun /\ [][NextRerun]_vars

\* ---- runs whose dynamics object holds any derivative function
\* The functions found as dynamics.nonlinear.calc_state_derivative
Derivatives == {"nonlinear", "oscillator", "cart only"}

DynamicsPlants == { Plant(a) : a \in SomeActuators }

\* Simulation(..., dynamics = d): as Setup, with the dynamics given
InitDynamics ==
    /\ system \in DynamicsPlants
    /\ controller \in Controllers(system)
    /\ integrator \in Integrators
    /\ dynamics \in Derivatives
    /\ state \in InitialStates
    /\ time = 0
    /\ u = Unset
    /\ lag_u = Unset
    /\ lag_window_start = Unset
    /\ pc = "idle"
    /\ times = << >>
    /\ i = 0
    /\ states = << >>
    /\ inputs = << >>
    /\ log = << >>
    /\ calls = << >>

SpecDynamics == InitDynamics /\ [][Next]_vars

\* ---- controllers built with a limit of their own
\* The keyword limit of LQRController(...), handed to AbstractController
ControllerLimits == {None, Some(5 * FP)}

\* Actuators with each of the force limits, and one with a refresh rate and
\* a lag
LimitActuators ==
    { Actuator(fl, None, None) : fl \in ForceLimits } \cup SomeActuators
LimitPlants == { Plant(a) : a \in LimitActuators }

\* The constant controllers, whose constructor takes no limit, and LQR
\* controllers built with and without a limit, on any of the plants (the
\* plant handed to the constructor need not be the one simulated)
LimitControllers ==
    ConstantControllers
    \cup { LQRController("I4", FP, built_on, Origin, lim) :
              built_on \in LimitPlants, lim \in ControllerLimits }

InitLimit ==
    Setup(LimitPlants, [sys \in LimitPlants |-> LimitControllers],
          InitialStates)

SpecLimit == InitLimit /\ [][Next]_vars

\* ---- actuators with a command lag of 0
ZeroLagActuators == { a \in Actuators : a.command_lag = Some(0) }
ZeroLagPlants == { Plant(a) : a \in ZeroLagActuators }

InitZeroLag ==
    Setup(ZeroLagPlants, [sys \in ZeroLagPlants |-> Controllers(sys)],
          InitialStates)

SpecZeroLag == InitZeroLag /\ [][Next]_vars

\* ================================================================ claims
\* Helpers of the statements below.  log[j] is tick j of the run (1-based):
\* its time t, its step dt, whether the controller was queried, the force
\* the controller requests for the state the tick started from (before the
\* limit), the values of lag_u and u after the tick.
Ticks == 1..Len(log)
force_limit == system.actuator.force_limit
refresh_rate == system.actuator.refresh_rate
command_lag == system.actuator.command_lag

\* The sample window [n/r, (n+1)/r) that holds time t
Window(t) == t \div RefreshPeriod(refresh_rate)

\* The recorded input changes value at sample j
InputChanges(j) == j \in 2..i /\ inputs[j] # inputs[j - 1]

\* C1 (violated by the code): with a refresh rate r and command_lag = 0, the
\* recorded input changes value at most once within each window
\* [n/r, (n+1)/r), for uniform, non-uniform and repeated timestamps.
C1_SampleAndHold ==
    (refresh_rate # None /\ command_lag = Some(0)) =>
        \A j \in 2..i : \A k \in 2..i :
            (j < k /\ Window(times[j]) = Window(times[k])
             /\ InputChanges(j)) => ~InputChanges(k)

\* The first tick at or after tick j whose time is at least lag after tick j
FirstPastLag(j, lag) ==
    { k \in Ticks :
        /\ k >= j
        /\ log[k].t - log[j].t >= lag
        /\ \A m \in j..(k - 1) : log[m].t - log[j].t < lag }

\* C2 (violated by the code): with a command lag L configured, a command
\* computed at tick time t_c is the applied input u after the first tick t
\* with t - t_c >= L, for every refresh-rate setting.
C2_PureDelay ==
    command_lag # None =>
        \A j \in Ticks : log[j].query =>
            \A k \in FirstPastLag(j, Val(command_lag)) : log[k].u = log[j].lag_u

\* C3 (violated by the code): whenever the force a controller requests has a
\* magnitude greater than the configured force_limit, compute_u returns
\* +force_limit or -force_limit, with the sign of the requested force.
C3_ActuatorLimit ==
    force_limit # None =>
        \A j \in Ticks :
            (log[j].query /\ Abs(log[j].requested) > Val(force_limit)) =>
                log[j].lag_u = Sign(log[j].requested) * Val(force_limit)

\* C4 (violated by the code): the first recorded sample is the canonical
\* vector of the initial state, whatever times[0] is.
C4_FirstSampleIsInitial ==
    i >= 1 => states[1] = log[1].before

\* C5 (violated by the code): a tick whose time equals the previous tick's
\* time records the same state vector and the same applied input as the
\* previous sample.
C5_DuplicateNoOp ==
    \A j \in 2..i :
        times[j] = times[j - 1] =>
            (states[j] = states[j - 1] /\ inputs[j] = inputs[j - 1])

\* What C6 says of one state: the first i columns are written, the others are
\* not, column k holds the state after tick k and the input applied during
\* tick k, and run returns after exactly len(times) ticks.
HistoryShape ==
    pc # "idle" =>
        /\ DOMAIN states = 1..Len(times)
        /\ DOMAIN inputs = 1..Len(times)
        /\ Len(log) = i
        /\ i <= Len(times)
        /\ pc = "returned" => i = Len(times)
        /\ \A k \in 1..Len(times) :
             IF k <= i
             THEN /\ inputs[k] = Some(log[k].u)
                  /\ log[k].t = times[k]
                  /\ states[k] # Unset
                  /\ k = i => states[k] = to_vector(state) /\ inputs[k] = Some(u)
             ELSE states[k] = Unset /\ inputs[k] = Unset

\* What C6 says of one step: a written column is never written again.
NoRewrite ==
    pc = "running" =>
        \A k \in 1..i : states'[k] = states[k] /\ inputs'[k] = inputs[k]

\* C6: run makes exactly len(times) ticks and returns one entry per
\* timestamp, in time order: after tick i the entries 1..i are written and
\* never rewritten, and entry i holds the state after tick i and the input
\* applied during tick i.
C6_HistoryAppendOnly == []HistoryShape /\ [][NoRewrite]_vars

C6_Witness ==
    /\ pc = "returned"
    /\ Len(times) = MaxTicks
    /\ times[1] < times[2]
    /\ states[1] # states[MaxTicks]
    /\ inputs[1] # inputs[MaxTicks]

\* C7 (violated by the code): with a force_limit configured, every entry of
\* the input history has a magnitude of at most force_limit.
C7_AppliedForceBound ==
    force_limit # None =>
        \A k \in 1..i : Abs(Val(inputs[k])) <= Val(force_limit)

IdealActuator == system.actuator = Actuator(None, None, None)

\* C8: with an actuator that has no force limit, no refresh rate and no
\* command lag, every tick queries the controller, and the input applied and
\* recorded at the tick is the force the controller requests at that tick,
\* unclamped.
C8_IdealActuator ==
    IdealActuator =>
        \A j \in Ticks :
            /\ log[j].query
            /\ log[j].u = log[j].requested
            /\ inputs[j] = Some(log[j].requested)

C8_Witness ==
    /\ IdealActuator
    /\ controller.kind = "LQR"
    /\ Len(log) >= 2
    /\ log[2].dt > 0
    /\ log[2].requested # 0
    /\ log[2].requested # log[1].requested
    /\ inputs[2] = Some(log[2].requested)

\* C9: with a Constant controller at u = 0 and the zero initial state, every
\* recorded state is the zero state, under both integrators and for every
\* time sequence.
C9_FixedPoint ==
    (i >= 1 /\ controller = ConstantController(0) /\ log[1].before = Origin) =>
        \A k \in 1..i : states[k] = Origin

C9_Witness ==
    /\ pc = "returned"
    /\ controller = ConstantController(0)
    /\ integrator = "RK4"
    /\ i = MaxTicks
    /\ log[1].before = Origin
    /\ log[1].dt > 0
    /\ log[2].dt > 0
    /\ states[i] = Origin

\* C10: the LQR gain is computed exactly once, at construction: no tick and
\* no compute_u call solves the Riccati equation again or changes K, Q, R or
\* the setpoint.
C10_GainComputedOnce ==
    /\ [](controller.kind = "LQR" => controller.solves = 1)
    /\ [][controller' = controller]_vars

C10_Witness ==
    /\ pc = "returned"
    /\ controller.kind = "LQR"
    /\ controller.solves = 1
    /\ \E j \in Ticks : \E k \in Ticks :
         j < k /\ log[j].query /\ log[k].query /\ log[j].lag_u # log[k].lag_u


\* C11: a time sequence with some times[k+1] < times[k] is rejected before
\* the first tick of run: no iteration of the loop is executed for it, the
\* state is not advanced and no sample is written.
Decreasing(ts) == \E k \in 1..(Len(ts) - 1) : ts[k + 1] < ts[k]
C11_NonMonotonicRejected ==
    Decreasing(times) =>
        /\ i = 0
        /\ log = << >>
        /\ \A k \in 1..Len(states) : states[k] = Unset


\* C12: if a derivative evaluation of a tick yields a non-finite value, the
\* run aborts at that tick: the tick writes no sample and no later tick is
\* executed.
Finite(v) == \A k \in 1..4 : v[k] # NaN
\* The first derivative evaluation of tick j (the only one of an Euler step,
\* k1 of a Runge-Kutta step)
FirstDerivative(j) ==
    calc_state_derivative("nonlinear", from_vector(log[j].before), system,
                          log[j].u)
C12_NonFiniteAborts ==
    \A j \in Ticks :
        ~Finite(FirstDerivative(j)) =>
            /\ states[j] = Unset
            /\ Len(log) = j


\* C13: no System object exists whose cart mass, pendulum mass, pendulum
\* length or moment of inertia is not positive (building one fails).
C13_PlantParametersPositive ==
    /\ system.cart.mass > 0
    /\ system.pendulum.mass > 0
    /\ system.pendulum.length > 0
    /\ system.pendulum.moi > 0


\* C14: building an LQRController either gives an object whose gain K is the
\* result of a successful Riccati solve for its Q, its R and the plant, or
\* raises: then there is no controller object, and nothing runs.
C14_GainOrError ==
    /\ controller.kind = "LQR" =>
          /\ ~calc_k_raises(controller.Q, controller.R, system)
          /\ controller.K =
                RiccatiGain(get_A_B(system), controller.Q, controller.R)
    /\ controller.kind # "LQR" =>
          /\ controller = Raised
          /\ pc = "raised"
          /\ log = << >>
\* The weight R = 0 was rejected for a valid plant
C14_Witness ==
    /\ controller = Raised
    /\ ~calc_k_raises("I4", FP, system)


\* C15: round trip.  State.from_vector(s.to_vector()) holds the same four
\* quantities as s (their magnitudes in base units are those of s), whatever
\* the units s was given in; State.from_vector(v).to_vector() is v.  Checked
\* on every state of a run and on every recorded vector.
SameQuantities(s1, s2) == to_vector(s1) = to_vector(s2)
C15_RoundTrip ==
    /\ SameQuantities(from_vector(to_vector(state)), state)
    /\ \A k \in 1..Len(states) :
          states[k] # Unset => to_vector(from_vector(states[k])) = states[k]
\* A run is handed a state given in degrees, whose vector differs from its
\* magnitudes
C15_Witness ==
    /\ pc = "running"
    /\ state.theta.unit = "deg"
    /\ to_vector(state)[3] # state.theta.mag


\* C16: a run does not modify the plant.  No step of a run changes a field
\* of the System, and the derived fields (total_mass, b, g, moi_pend,
\* m_cart, m_pend, l_com) stay those computed from the cart, the pendulum
\* and the gravity at construction.
PlantAsBuilt ==
    system = System(system.actuator, system.cart, system.pendulum,
                    system.gravity)
C16_PlantReadOnly == []PlantAsBuilt /\ [][system' = system]_vars
\* A run of MaxTicks ticks has returned and has moved the state
C16_Witness ==
    /\ pc = "returned"
    /\ Len(log) = MaxTicks
    /\ to_vector(state) # log[1].before


\* C17: every call of ConstantController.compute_u returns the same value,
\* whatever the state and the time: the configured force, after the
\* actuator limit is enforced.
C17_ConstantCommand ==
    controller.kind = "Constant" =>
        \A j \in Ticks :
            log[j].query =>
                log[j].lag_u = enforce_limit(system.actuator, controller.u)
\* A constant controller was queried at two times, in two states with
\* different velocities, and its force was clamped
C17_Witness ==
    /\ controller.kind = "Constant"
    /\ Truthy(force_limit)
    /\ Abs(controller.u) > Val(force_limit)
    /\ \E j, k \in Ticks :
          /\ log[j].query /\ log[k].query
          /\ log[j].t # log[k].t
          /\ log[j].before[2] # log[k].before[2]

\* C18: every call of LQRController.compute_u returns
\* enforce_limit(-K . (state.to_vector() - setpoint)), K being the gain
\* solved at construction and the actuator limit being enforced last.
GainAtConstruction ==
    RiccatiGain(get_A_B(system), controller.Q, controller.R)
C18_LQRCommand ==
    controller.kind = "LQR" =>
        \A j \in Ticks :
            log[j].query =>
                log[j].lag_u =
                    enforce_limit(system.actuator,
                        -Dot(GainAtConstruction,
                             VSub(log[j].before, controller.setpoint)))
\* An LQR controller with a non-zero setpoint was queried in a state off the
\* origin, once with the limit acting and once without
C18_Witness ==
    /\ controller.kind = "LQR"
    /\ controller.setpoint # Origin
    /\ \E j, k \in Ticks :
          /\ log[j].query /\ log[k].query
          /\ log[j].before # Origin
          /\ log[j].lag_u # log[j].requested
          /\ log[k].lag_u = log[k].requested
          /\ log[k].requested # 0


\* C19: the linearization of NonlinearModel.calc_state_derivative at the
\* upright equilibrium (theta = 0, omega = 0, vx = 0, u = 0) is the linear
\* model exactly: the derivative vanishes there, its partial derivatives
\* along x, vx, theta and omega are the columns of A and its partial
\* derivative along u is B, as rational numbers.  (The position x is not an
\* operand of the equations of motion.)  Stated of every plant on which
\* get_A_B does not divide by zero, when it has been built.
\* The operand at the equilibrium: value 0, derivative 1 along its own
\* direction
Seed(operand, direction) ==
    Jet(RInt(0), IF operand = direction THEN RInt(1) ELSE RInt(0))
AtEquilibrium(sys, direction) ==
    calc_state_derivative_unitless(
        Seed("vx", direction), Seed("theta", direction),
        Seed("omega", direction), sys.m_cart, sys.m_pend, sys.l_com,
        sys.moi_pend, sys.g, sys.b, Seed("u", direction))
Partial(sys, direction) ==
    Only({ << f[1].d, f[2].d, f[3].d, f[4].d >>
           : f \in {AtEquilibrium(sys, direction)} })
MatrixColumn(A, k) == << A[1][k], A[2][k], A[3][k], A[4][k] >>
Linearizable(sys) == ~calc_k_raises("I4", FP, sys)
C19_LinearizationIsLinearModel ==
    (pc = "idle" /\ Linearizable(system)) =>
        \E AB \in {get_A_B_unitless(system.m_cart, system.m_pend,
                                     system.l_com, system.moi_pend,
                                     system.g, system.b)} :
            /\ \A k \in 1..4 : AtEquilibrium(system, "x")[k].v = RInt(0)
            /\ Partial(system, "x") = MatrixColumn(AB.A, 1)
            /\ Partial(system, "vx") = MatrixColumn(AB.A, 2)
            /\ Partial(system, "theta") = MatrixColumn(AB.A, 3)
            /\ Partial(system, "omega") = MatrixColumn(AB.A, 4)
            /\ Partial(system, "u") = AB.B
\* A valid plant with friction, whose A has a non-zero entry in each of
\* the columns of vx and theta
C19_Witness ==
    /\ pc = "idle"
    /\ C13_PlantParametersPositive
    /\ system.b # 0
    /\ Partial(system, "vx")[4] # RInt(0)
    /\ Partial(system, "theta")[2] # RInt(0)


\* C20: LQR stabilization.  In a run under an LQR controller (Q positive
\* semi-definite, R positive definite, the actuator adding no limit, hold
\* or lag) the distance of the recorded state from the setpoint never
\* increases from one sample to the next.
NormSq(v) == v[1] * v[1] + v[2] * v[2] + v[3] * v[3] + v[4] * v[4]
Distance2(k) == NormSq(VSub(states[k], controller.setpoint))
C20_LQRDistanceNonIncreasing ==
    (controller.kind = "LQR" /\ IdealActuator) =>
        \A k \in 1..(i - 1) : Distance2(k + 1) <= Distance2(k)


\* C21: the actuator-timing step of a tick at time t with step dt.  If
\* is_update_time(t, dt) holds, lag_u is recomputed from the controller and
\* lag_window_start becomes t; otherwise both are unchanged.  Then, if
\* is_past_lag_time(t, lag_window_start) holds for the lag window as it now
\* is, u becomes lag_u; otherwise u is unchanged.
TickStep == pc = "running" /\ i' = i + 1
TimingProtocol ==
    LET t == times[i + 1]
        dt == t - time
    IN  /\ IF is_update_time(system.actuator, t, dt)
           THEN /\ lag_u' = compute_u(controller, system, state)
                /\ lag_window_start' = t
           ELSE /\ lag_u' = lag_u
                /\ lag_window_start' = lag_window_start
        /\ IF is_past_lag_time(system.actuator, t, lag_window_start')
           THEN u' = lag_u'
           ELSE u' = u
C21_TimingProtocol == [][TickStep => TimingProtocol]_vars
\* A run in which one tick computed a command and held it back, and a later
\* tick applied it without computing one
C21_Witness ==
    \E j, k \in Ticks :
        /\ j < k
        /\ log[j].query /\ ~log[j].promote
        /\ log[j].lag_u # 0 /\ log[j].u = 0
        /\ ~log[k].query /\ log[k].promote
        /\ log[k].u = log[j].lag_u


\* C22 (violated by the code): at the start of every call of run(times), the
\* first call on the object and every further one, the previous time is
\* times[0], u and lag_u are 0 and lag_window_start is times[0]; so the
\* first tick of the call has dt = 0.
AtStartOfRun == pc = "running" /\ i = 0
C22_RunInitialisation ==
    /\ AtStartOfRun =>
          /\ time = times[1]
          /\ u = 0
          /\ lag_u = 0
          /\ lag_window_start = times[1]
    /\ Len(log) >= 1 => log[1].dt = 0


\* C23: sample boundary crossing.  With a refresh rate r configured, a tick
\* at time t with a positive step dt computes a command exactly when some
\* sample boundary n/r lies in (t - dt, t].  Hence, over a strictly
\* increasing time sequence, every boundary crossed after the first tick
\* has exactly one tick that crosses it, that tick computes a command, and
\* a tick after the first that crosses no boundary computes none.
\* The sample boundaries n/r in the interval (a, b], b >= 0
BoundariesIn(a, b) ==
    { n * RefreshPeriod(refresh_rate) : n \in 0..b }
        \cap { t \in (a + 1)..b : TRUE }
StrictlyIncreasing == \A k \in 2..i : times[k - 1] < times[k]
C23_BoundaryCrossing ==
    refresh_rate # None =>
        /\ \A j \in Ticks :
              log[j].dt > 0 =>
                 (log[j].query <=>
                     BoundariesIn(log[j].t - log[j].dt, log[j].t) # {})
        /\ (i >= 2 /\ StrictlyIncreasing) =>
              /\ \A b \in BoundariesIn(times[1], times[i]) :
                    \E j \in 2..i :
                        /\ b \in BoundariesIn(times[j - 1], times[j])
                        /\ log[j].query
                        /\ \A k \in 2..i :
                              b \in BoundariesIn(times[k - 1], times[k])
                                 => k = j
              /\ \A j \in 2..i :
                    BoundariesIn(times[j - 1], times[j]) = {}
                       => ~log[j].query
\* A strictly increasing run at 1 Hz: a tick after the first that starts on
\* a boundary and crosses none, and a later tick that crosses one
C23_Witness ==
    /\ refresh_rate = Some(1)
    /\ i >= 3
    /\ StrictlyIncreasing
    /\ \E j, k \in 2..i :
          /\ j < k
          /\ log[j].t - log[j].dt = 0
          /\ ~log[j].query
          /\ log[k].query


\* C24: order within a tick.  The timing decision and the controller query
\* come before the integration: the command computed at tick i is computed
\* from the state as the previous tick left it (the sample recorded at
\* index i - 1), and the input recorded at index i is the input of the
\* integration step that produced the state recorded at index i.  Stated of
\* the latest tick of every state of a run.
StateBeforeTick(j) == from_vector(log[j].before)
C24_OrderWithinTick ==
    i >= 1 =>
        /\ i >= 2 => log[i].before = states[i - 1]
        /\ log[i].query =>
              log[i].lag_u = compute_u(controller, system, StateBeforeTick(i))
        /\ states[i] =
              to_vector(step(integrator, dynamics, StateBeforeTick(i),
                             log[i].dt, system, Val(inputs[i])))
\* A tick after the first queried the controller, changed the input and
\* moved the state, and the controller would have answered otherwise on the
\* state the tick produced
C24_Witness ==
    /\ i >= 2
    /\ controller.kind = "LQR"
    /\ log[i].query
    /\ log[i].dt > 0
    /\ inputs[i] # inputs[i - 1]
    /\ states[i] # states[i - 1]
    /\ log[i].lag_u # compute_u(controller, system, state)


\* C25: RK4Integrator.step(f, state, dt, system, u) returns
\* state + (dt/6) (k1 + 2 k2 + 2 k3 + k4), with k1 = f(state),
\* k2 = f(state + 0.5 dt k1), k3 = f(state + 0.5 dt k2),
\* k4 = f(state + dt k3), every evaluation of f being handed the same
\* system and the same u, whatever the derivative function f.  Stated of
\* the latest tick of every state of a run: the recorded state is that
\* formula of the state the tick started from.
\* f on a vector, with the plant and the input of the tick
F(v, u0) == calc_state_derivative(dynamics, from_vector(v), system, u0)
\* v + (n/d) dt k, dt in quanta
Advance(v, n, d, dt, k) == VAdd(v, VTrunc(VScale(n * dt, k), d * TimeBase))
RK4Formula(v, dt, u0) ==
    Only({ Only({ Only({ Only({
        Advance(v, 1, 6, dt,
                VAdd(VAdd(k1, VScale(2, k2)), VAdd(VScale(2, k3), k4)))
        : k4 \in {F(Advance(v, 1, 1, dt, k3), u0)} })
        : k3 \in {F(Advance(v, 1, 2, dt, k2), u0)} })
        : k2 \in {F(Advance(v, 1, 2, dt, k1), u0)} })
        : k1 \in {F(v, u0)} })
C25_RK4Formula ==
    (integrator = "RK4" /\ i >= 1) =>
        states[i] = RK4Formula(log[i].before, log[i].dt, log[i].u)
\* A Runge-Kutta step of a derivative function that is not a model of the
\* pendulum, with a non-zero input, moved the state
C25_Witness ==
    /\ integrator = "RK4"
    /\ dynamics = "oscillator"
    /\ i >= 2
    /\ log[i].dt > 0
    /\ log[i].u # 0
    /\ states[i] # log[i].before
    /\ states[i][3] # 0


ComputedUpTo(j) == { log[k].lag_u : k \in { m \in 1..j : log[m].query } }
C27_InputProvenance ==
    \A j \in Ticks : log[j].u = 0 \/ log[j].u \in ComputedUpTo(j)
\* In a second call of run on the object, a tick that computes no command
\* applies a non-zero command computed by an earlier tick of that call
C27_Witness ==
    /\ Len(calls) = 1
    /\ \E j \in Ticks :
          /\ ~log[j].query
          /\ log[j].u # 0
          /\ log[j].u \in ComputedUpTo(j - 1)


\* C28: a command_lag of exactly 0 behaves like an absent command_lag.  For
\* every non-decreasing time sequence, controller and refresh rate, a run
\* with command_lag = 0 records the state and input histories of the run of
\* the same configuration without a command lag, and u equals lag_u at the
\* end of every tick.  Stated tick by tick: from the values the previous
\* tick left (the same in both runs up to there), the tick of the
\* configuration without a lag gives the values that the tick of the run
\* gave.
\* The plant with the command lag taken away
WithoutLag(sys) == [sys EXCEPT !.actuator.command_lag = None]
\* u and lag_u as tick j found them
InputBefore(j) == IF j = 1 THEN 0 ELSE log[j - 1].u
CommandBefore(j) == IF j = 1 THEN 0 ELSE log[j - 1].lag_u
\* Tick j on the plant sys: the command and the state it leaves, an absent
\* lag being always satisfied
TickWithoutLag(sys, j) ==
    LET cmd == IF is_update_time(sys.actuator, log[j].t, log[j].dt)
               THEN compute_u(controller, sys, StateBeforeTick(j))
               ELSE CommandBefore(j)
    IN  [lag_u |-> cmd, u |-> cmd,
         state |-> to_vector(step(integrator, dynamics, StateBeforeTick(j),
                                  log[j].dt, sys, cmd))]
C28_ZeroLagIsNoLag ==
    (command_lag = Some(0) /\ i >= 1) =>
        /\ log[i].u = log[i].lag_u
        /\ \E r \in {TickWithoutLag(WithoutLag(system), i)} :
              /\ r.lag_u = log[i].lag_u
              /\ Some(r.u) = inputs[i]
              /\ r.state = states[i]
\* With a lag of 0 and a refresh rate, a tick computed a command that changed
\* the input, a later tick computed none and kept it, and the state moved
C28_Witness ==
    /\ command_lag = Some(0)
    /\ refresh_rate # None
    /\ i >= 3
    /\ \E j \in 1..(i - 1) :
          /\ log[j].query
          /\ log[j].u # InputBefore(j)
    /\ ~log[i].query
    /\ log[i].u # 0
    /\ states[i] # states[i - 1]


\* C29: the clamp of compute_u is the force_limit of the actuator of the
\* System handed to the call.  A limit given to the controller's own
\* constructor does not change what compute_u returns: the call returns
\* what the actuator's enforce_limit makes of the requested force, and the
\* same controller built with any other limit returns the same.
WithLimit(ctrl, lim) ==
    IF ctrl.kind = "LQR" THEN [ctrl EXCEPT !.limit = lim] ELSE ctrl
C29_ClampIsTheActuators ==
    \A j \in Ticks :
        log[j].query =>
            /\ log[j].lag_u = enforce_limit(system.actuator, log[j].requested)
            /\ \A lim \in ControllerLimits :
                  compute_u(WithLimit(controller, lim), system,
                            StateBeforeTick(j)) = log[j].lag_u
\* An LQR controller built with a limit of 5 N returned a force of more
\* than 5 N unchanged, on an actuator without a force limit
C29_Witness ==
    /\ controller.kind = "LQR"
    /\ controller.limit = Some(5 * FP)
    /\ force_limit = None
    /\ \E j \in Ticks :
          /\ log[j].query
          /\ Abs(log[j].requested) > 5 * FP
          /\ log[j].lag_u = log[j].requested


\* C30: after run(times) returns, the object keeps the end of the run:
\* Simulation.state is the last recorded state and Simulation.time is
\* times[-1].  Nothing restores the initial state or the start time: a
\* further call of run starts from the state and the time that the call
\* before it left.
LastCall == calls[Len(calls)]
C30_ObjectKeepsEndOfRun ==
    /\ pc = "returned" =>
          /\ to_vector(state) = states[Len(times)]
          /\ time = times[Len(times)]
          /\ LastCall.state = state /\ LastCall.time = time
    /\ (pc = "running" /\ Len(calls) >= 1) =>
          /\ i = 0 => (state = LastCall.state /\ time = LastCall.time)
          /\ i >= 1 =>
                /\ log[1].before = to_vector(LastCall.state)
                /\ log[1].t - log[1].dt = LastCall.time
\* A second call of run has made a tick; the first call had moved the state
\* away from the first sample it recorded and the time away from 0
C30_Witness ==
    /\ pc = "running"
    /\ Len(calls) = 1
    /\ i >= 1
    /\ calls[1].time > 0
    /\ Len(calls[1].times) = 2
    /\ calls[1].states[2] # calls[1].states[1]
    /\ log[1].before = calls[1].states[2]
    /\ log[1].dt # 0

=============================================================================
